---- MODULE Spec2Model ----
(***************************************************************************)
(* Model of the two scripts of the repository:                             *)
(*   scripts/scale_spot_ocean_vng.py      (SpotOceanScaler and its main)    *)
(*   scripts/update_port_scaling_status.py (PortStatusReporter and its main)*)
(*                                                                         *)
(* Both scripts are single threaded.  Every operation (a method called on  *)
(* an instance, or a whole process run of a main) is one action.  The      *)
(* remote APIs are the environment: each action draws the answer of every  *)
(* HTTP request it may issue from a bounded set of responses.              *)
(*                                                                         *)
(* Python values:                                                          *)
(*   - a dict is a function with a set of strings as domain;               *)
(*   - text that the code inspects character by character (the status      *)
(*     string, the capacity strings) is a sequence of one-character        *)
(*     strings; opaque text (tokens, identifiers) is a TLA+ string;        *)
(*   - the result of a call is Return(v) or Raise(exception class); the    *)
(*     result of a process run is Exit(code).                              *)
(***************************************************************************)
EXTENDS Integers, Sequences, FiniteSets, TLC

VARIABLES
    op,            \* name of the operation that ran last ("none" initially)
    args,          \* the inputs that operation was given
    outcome,       \* how it ended: Return(v), Raise(e) or Exit(code)
    http,          \* the HTTP exchanges it made, in order: [req, resp]
    access_token,  \* PortStatusReporter.access_token of the reporter instance
    calls,         \* number of update_entity_status calls made on the instance
    token_posts,   \* number of token requests the instance has sent so far
    remote,        \* the resource limits the remote API holds for the launch spec
    prev           \* the exchanges of the scale_vng call before a repeated one

vars == <<op, args, outcome, http, access_token, calls, token_posts, remote, prev>>

---------------------------------------------------------------------------
(* Bounds *)

\* requested capacities range over -1..MaxCap
MaxCap == 2
\* number of update_entity_status calls made on one reporter instance
MaxCalls == 3

---------------------------------------------------------------------------
(* Python results and values *)

Return(v) == [kind |-> "return", value |-> v]
Raise(e)  == [kind |-> "raise", exc |-> e]
Exit(c)   == [kind |-> "exit", code |-> c]

\* Python's None, for the fields that hold opaque text
None == "<None>"
\* the empty dict {}
EmptyDict == [k \in {} |-> 0]

\* truth value of an opaque text value or None: `if x` / `if not x`
Truthy(v) == v # None /\ v # ""

\* os.getenv(name): the variable's value when set
IsSet(env, name) == name \in DOMAIN env

---------------------------------------------------------------------------
(* The remote side: what one HTTP request can be answered with *)

\* requests raises ConnectionError (or Timeout ...): no response at all
TransportError == [kind |-> "error"]
Response(status, body) == [kind |-> "response", status |-> status, body |-> body]

\* a body is text; valid says whether it parses as JSON, value is the parse
JsonBody(v) == [valid |-> TRUE, value |-> v]
Malformed   == [valid |-> FALSE, value |-> EmptyDict]

StatusCodes == {200, 201, 202, 302, 404, 500}

\* requests.Response.raise_for_status(): HTTPError for 4xx and 5xx only
raise_for_status(resp) ==
    IF 400 <= resp.status /\ resp.status < 600 THEN Raise("HTTPError") ELSE Return(None)

\* requests.Response.json()
json(resp) ==
    IF resp.body.valid THEN Return(resp.body.value) ELSE Raise("JSONDecodeError")

---------------------------------------------------------------------------
(* scripts/scale_spot_ocean_vng.py : class SpotOceanScaler *)

Capacities == -1..MaxCap

\* SpotOceanScaler.__init__
SpotOceanScaler(token, account_id) ==
    [token |-> token, account_id |-> account_id,
     base_url |-> "https://api.spotinst.io",
     headers |-> [Authorization |-> <<"Bearer ", token>>,
                  ContentType |-> "application/json"]]

\* the endpoint of both requests: /ocean/aws/k8s/launchSpec/{vng_id}
LaunchSpecEndpoint(vng_id) == [path |-> "/ocean/aws/k8s/launchSpec", id |-> vng_id]

\* what the launch-spec GET can be answered with
LaunchSpecObject == [id |-> "ols-1", name |-> "vng",
                     resourceLimits |-> [minInstanceCount |-> 1, maxInstanceCount |-> 1]]
GetBodies ==
    { Malformed,
      JsonBody(LaunchSpecObject),                                   \* bare object
      JsonBody([response |-> [items |-> <<LaunchSpecObject>>]]),   \* wrapper
      JsonBody([response |-> [items |-> <<>>]]),                   \* empty items
      JsonBody([response |-> [count |-> 0]]) }                     \* no items key
GetResponses == {TransportError} \cup {Response(st, b) : st \in StatusCodes, b \in GetBodies}

\* what the launch-spec PUT can be answered with
UpdateResult == [response |-> [status |-> [code |-> 200], count |-> 1]]
ErrorResult  == [response |-> [errors |-> <<"rejected">>]]
PutBodies    == {Malformed, JsonBody(UpdateResult), JsonBody(ErrorResult)}
PutResponses == {TransportError} \cup {Response(st, b) : st \in StatusCodes, b \in PutBodies}

\* get_launch_spec_details as it would be if it returned the wrapper's content
\* without taking the first item
get_launch_spec_details_whole_wrapper(self, vng_id, getResp) ==
    LET request == [method |-> "GET", url |-> LaunchSpecEndpoint(vng_id),
                    headers |-> self.headers,
                    params |-> [accountId |-> self.account_id]]
        launch_spec_data == json(getResp)
    IN  [http |-> <<[req |-> request, resp |-> getResp]>>,
         outcome |->
            IF getResp.kind = "error" THEN Raise("ConnectionError")
            ELSE IF raise_for_status(getResp).kind = "raise" THEN raise_for_status(getResp)
            ELSE IF launch_spec_data.kind = "raise" THEN launch_spec_data
            ELSE IF "response" \in DOMAIN launch_spec_data.value
                 THEN Return(launch_spec_data.value["response"])
            ELSE Return(launch_spec_data.value)]

\* SpotOceanScaler.get_launch_spec_details; getResp answers its GET.
\* Gives the exchanges made and Return(launch spec) or Raise(exception).
get_launch_spec_details(self, vng_id, getResp) ==
    LET request == [method |-> "GET", url |-> LaunchSpecEndpoint(vng_id),
                    headers |-> self.headers,
                    params |-> [accountId |-> self.account_id]]
        exchange == <<[req |-> request, resp |-> getResp]>>
        launch_spec_data == json(getResp)
    IN  [http |-> exchange,
         outcome |->
            IF getResp.kind = "error" THEN Raise("ConnectionError")
            ELSE IF raise_for_status(getResp).kind = "raise" THEN raise_for_status(getResp)
            ELSE IF launch_spec_data.kind = "raise" THEN launch_spec_data
            ELSE IF "response" \in DOMAIN launch_spec_data.value
                 THEN LET wrapper == launch_spec_data.value["response"]
                      IN  IF "items" \notin DOMAIN wrapper THEN Raise("KeyError")
                          ELSE IF Len(wrapper["items"]) = 0 THEN Raise("IndexError")
                          ELSE Return(wrapper["items"][1])
            ELSE Return(launch_spec_data.value)]

\* update_payload as it would be if the fetched fields were sent along
update_payload_with_name(min_capacity, max_capacity) ==
    [launchSpec |->
        [name |-> "vng",
         resourceLimits |->
            [minInstanceCount |-> min_capacity,
             maxInstanceCount |-> max_capacity]]]

\* the update payload built by scale_vng
update_payload(min_capacity, max_capacity) ==
    [launchSpec |->
        [resourceLimits |->
            [minInstanceCount |-> min_capacity,
             maxInstanceCount |-> max_capacity]]]

\* put_outcome as it would be if the body were wrapped into a result record
put_outcome_wrapped(putResp) ==
    IF putResp.kind = "error" THEN Raise("ConnectionError")
    ELSE IF putResp.status \notin {200, 201} /\ raise_for_status(putResp).kind = "raise"
         THEN raise_for_status(putResp)
    ELSE IF json(putResp).kind = "raise" THEN json(putResp)
    ELSE Return([success |-> TRUE, rawResponse |-> json(putResp).value])

\* the part of scale_vng after the PUT was answered
put_outcome(putResp) ==
    IF putResp.kind = "error" THEN Raise("ConnectionError")
    ELSE IF putResp.status \notin {200, 201} /\ raise_for_status(putResp).kind = "raise"
         THEN raise_for_status(putResp)
    ELSE json(putResp)

\* scale_vng as it would be without the try/except around the fetch
scale_vng_fetch_fatal(self, vng_id, min_capacity, max_capacity, getResp, putResp) ==
    LET fetch == get_launch_spec_details(self, vng_id, getResp)
        request == [method |-> "PUT", url |-> LaunchSpecEndpoint(vng_id),
                    headers |-> self.headers,
                    params |-> [accountId |-> self.account_id],
                    json |-> update_payload(min_capacity, max_capacity)]
    IN  IF fetch.outcome.kind = "raise"
        THEN [http |-> fetch.http, current_launch_spec |-> EmptyDict,
              outcome |-> fetch.outcome]
        ELSE [http |-> fetch.http \o <<[req |-> request, resp |-> putResp]>>,
              current_launch_spec |-> fetch.outcome.value,
              outcome |-> put_outcome(putResp)]

\* scale_vng as it would be if a failed PUT were sent once more
scale_vng_retry_put(self, vng_id, min_capacity, max_capacity, getResp, putResp) ==
    LET fetch == get_launch_spec_details(self, vng_id, getResp)
        request == [method |-> "PUT", url |-> LaunchSpecEndpoint(vng_id),
                    headers |-> self.headers,
                    params |-> [accountId |-> self.account_id],
                    json |-> update_payload(min_capacity, max_capacity)]
        put == <<[req |-> request, resp |-> putResp]>>
    IN  [http |-> IF put_outcome(putResp).kind = "raise"
                  THEN fetch.http \o put \o put ELSE fetch.http \o put,
         current_launch_spec |->
            IF fetch.outcome.kind = "return" THEN fetch.outcome.value ELSE EmptyDict,
         outcome |-> put_outcome(putResp)]

\* scale_vng as it would be if the new maximum were added to the fetched one
scale_vng_merge_current(self, vng_id, min_capacity, max_capacity, getResp, putResp) ==
    LET fetch == get_launch_spec_details(self, vng_id, getResp)
        current_launch_spec ==
            IF fetch.outcome.kind = "return" THEN fetch.outcome.value ELSE EmptyDict
        current_max ==
            IF "resourceLimits" \in DOMAIN current_launch_spec
            THEN current_launch_spec["resourceLimits"].maxInstanceCount ELSE 0
        request == [method |-> "PUT", url |-> LaunchSpecEndpoint(vng_id),
                    headers |-> self.headers,
                    params |-> [accountId |-> self.account_id],
                    json |-> update_payload(min_capacity, max_capacity + current_max)]
    IN  [http |-> fetch.http \o <<[req |-> request, resp |-> putResp]>>,
         current_launch_spec |-> current_launch_spec,
         outcome |-> put_outcome(putResp)]

\* SpotOceanScaler.scale_vng; getResp and putResp answer its GET and its PUT.
scale_vng(self, vng_id, min_capacity, max_capacity, getResp, putResp) ==
    LET fetch == get_launch_spec_details(self, vng_id, getResp)
        \* try/except Exception around the fetch
        current_launch_spec ==
            IF fetch.outcome.kind = "return" THEN fetch.outcome.value ELSE EmptyDict
        request == [method |-> "PUT", url |-> LaunchSpecEndpoint(vng_id),
                    headers |-> self.headers,
                    params |-> [accountId |-> self.account_id],
                    json |-> update_payload(min_capacity, max_capacity)]
    IN  [http |-> fetch.http \o <<[req |-> request, resp |-> putResp]>>,
         current_launch_spec |-> current_launch_spec,
         outcome |-> put_outcome(putResp)]

\* validate_scaling_parameters as it would be with the lower limit off by one
validate_scaling_parameters_from_zero(min_capacity, max_capacity) ==
    IF min_capacity < 0 THEN Raise("ValueError")
    ELSE IF max_capacity < min_capacity THEN Raise("ValueError")
    ELSE Return(TRUE)

\* SpotOceanScaler.validate_scaling_parameters
validate_scaling_parameters(min_capacity, max_capacity) ==
    IF min_capacity < 1 THEN Raise("ValueError")
    ELSE IF max_capacity < min_capacity THEN Raise("ValueError")
    ELSE Return(TRUE)

---------------------------------------------------------------------------
(* Text: a sequence of one-character strings *)

Digits == <<"0", "1", "2", "3", "4", "5", "6", "7", "8", "9">>
IsDigit(c) == \E d \in 1..10 : Digits[d] = c
DigitValue(c) == (CHOOSE d \in 1..10 : Digits[d] = c) - 1

RECURSIVE DecimalValue(_)
DecimalValue(s) ==
    IF s = <<>> THEN 0
    ELSE 10 * DecimalValue(SubSeq(s, 1, Len(s) - 1)) + DigitValue(s[Len(s)])

RECURSIVE Strip(_)
\* str.strip() for blanks, as int() does to its argument
Strip(s) ==
    IF s = <<>> THEN s
    ELSE IF Head(s) = " " THEN Strip(Tail(s))
    ELSE IF s[Len(s)] = " " THEN Strip(SubSeq(s, 1, Len(s) - 1))
    ELSE s

\* int(text): optional blanks, optional sign, then decimal digits only
int(s) ==
    LET t == Strip(s)
        signed == t # <<>> /\ Head(t) \in {"-", "+"}
        digits == IF signed THEN Tail(t) ELSE t
    IN  IF digits # <<>> /\ \A i \in 1..Len(digits) : IsDigit(digits[i])
        THEN Return(IF signed /\ Head(t) = "-" THEN 0 - DecimalValue(digits)
                    ELSE DecimalValue(digits))
        ELSE Raise("ValueError")

RECURSIVE NatText(_)
NatText(n) == IF n < 10 THEN <<Digits[n + 1]>> ELSE NatText(n \div 10) \o <<Digits[(n % 10) + 1]>>
\* the decimal text of an integer, as the workflow passes a capacity
IntText(n) == IF n < 0 THEN <<"-">> \o NatText(0 - n) ELSE NatText(n)

\* an environment is a function from the names that are set to their text;
\* a choice is <<>> for "not set" or <<text>> for "set to text"
MakeEnv(choice) ==
    [name \in {n \in DOMAIN choice : choice[n] # <<>>} |-> choice[name][1]]
\* Missing as it would be if only unset variables counted (`is None`)
Missing_unset_only(env, name) == ~IsSet(env, name)

\* `not os.getenv(name)`: unset or empty
Missing(env, name) == ~IsSet(env, name) \/ env[name] = <<>>
\* os.getenv(name, default)
Getenv(env, name, default) == IF IsSet(env, name) THEN env[name] ELSE default

---------------------------------------------------------------------------
(* scripts/scale_spot_ocean_vng.py : main *)

Unset == <<>>
Set(text) == <<text>>

CapacityTexts ==
    {IntText(n) : n \in Capacities}
    \cup {<<>>, <<"x">>, <<"1", ".", "5">>, <<" ", "1">>}

ScalerEnvs ==
    { MakeEnv([SPOT_TOKEN |-> tok, SPOT_ACCOUNT_ID |-> acct, VNG_ID |-> vng,
               MIN_CAPACITY |-> mn, MAX_CAPACITY |-> mx]) :
        tok  \in {Unset, Set(<<>>), Set(<<"t", "k">>)},
        acct \in {Unset, Set(<<"a", "c", "t">>)},
        vng  \in {Unset, Set(<<"o", "l", "s">>)},
        mn   \in {Unset} \cup {Set(t) : t \in CapacityTexts},
        mx   \in {Unset} \cup {Set(t) : t \in CapacityTexts} }

\* main_try as it would be if the scaling ran before the validation
main_try_scale_first(spot_token, spot_account_id, vng_id, min_capacity, max_capacity, getResp, putResp) ==
    LET scaler == SpotOceanScaler(spot_token, spot_account_id)
        valid  == validate_scaling_parameters(min_capacity, max_capacity)
        scaled == scale_vng(scaler, vng_id, min_capacity, max_capacity, getResp, putResp)
    IN  IF scaled.outcome.kind = "raise" THEN [http |-> scaled.http, outcome |-> Exit(1)]
        ELSE IF valid.kind = "raise" THEN [http |-> scaled.http, outcome |-> Exit(1)]
        ELSE [http |-> scaled.http, outcome |-> Exit(0)]

\* main_try as it would be without the call of validate_scaling_parameters
main_try_no_validate(spot_token, spot_account_id, vng_id, min_capacity, max_capacity, getResp, putResp) ==
    LET scaler == SpotOceanScaler(spot_token, spot_account_id)
        scaled == scale_vng(scaler, vng_id, min_capacity, max_capacity, getResp, putResp)
    IN  IF scaled.outcome.kind = "raise" THEN [http |-> scaled.http, outcome |-> Exit(1)]
        ELSE [http |-> scaled.http, outcome |-> Exit(0)]

\* the last try block of main: construct, validate, scale, sys.exit(0);
\* except Exception: sys.exit(1)
main_try(spot_token, spot_account_id, vng_id, min_capacity, max_capacity, getResp, putResp) ==
    LET scaler == SpotOceanScaler(spot_token, spot_account_id)
        valid  == validate_scaling_parameters(min_capacity, max_capacity)
        scaled == scale_vng(scaler, vng_id, min_capacity, max_capacity, getResp, putResp)
    IN  IF valid.kind = "raise" THEN [http |-> <<>>, outcome |-> Exit(1)]
        ELSE IF scaled.outcome.kind = "raise" THEN [http |-> scaled.http, outcome |-> Exit(1)]
        ELSE [http |-> scaled.http, outcome |-> Exit(0)]

\* main of scale_spot_ocean_vng.py, one process run
scale_spot_ocean_vng_main(env, getResp, putResp) ==
    LET missing_vars == {n \in {"SPOT_TOKEN", "SPOT_ACCOUNT_ID", "VNG_ID",
                                "MIN_CAPACITY", "MAX_CAPACITY"} : Missing(env, n)}
    IN  IF missing_vars # {} THEN [http |-> <<>>, outcome |-> Exit(1)]
        ELSE IF int(env["MIN_CAPACITY"]).kind = "raise" \/ int(env["MAX_CAPACITY"]).kind = "raise"
             THEN [http |-> <<>>, outcome |-> Exit(1)]
        ELSE main_try(env["SPOT_TOKEN"], env["SPOT_ACCOUNT_ID"], env["VNG_ID"],
                      int(env["MIN_CAPACITY"]).value, int(env["MAX_CAPACITY"]).value,
                      getResp, putResp)

---------------------------------------------------------------------------
(* The remote launch spec: PUT /ocean/aws/k8s/launchSpec/{id} updates
   resourceLimits.minInstanceCount and resourceLimits.maxInstanceCount *)

\* the limits of the launch spec before any request
InitialLimits == [minInstanceCount |-> 1, maxInstanceCount |-> 1]

\* whether the remote applied a PUT it answered with putResp: it did when it
\* answered 200 or 201, it did not when it answered 4xx or 5xx, and either is
\* possible when no answer arrived or the status says neither
Accepts(putResp) ==
    IF putResp.kind = "error" THEN {TRUE, FALSE}
    ELSE IF putResp.status \in {200, 201} THEN {TRUE}
    ELSE IF putResp.status >= 400 THEN {FALSE}
    ELSE {TRUE, FALSE}

\* the limits after the exchanges of one operation: an applied PUT replaces
\* both fields by those of its payload
remote_after(limits, exchanges, applied) ==
    LET puts == {i \in 1..Len(exchanges) : exchanges[i].req.method = "PUT"}
    IN  IF puts = {} \/ ~applied THEN limits
        ELSE LET sent == exchanges[CHOOSE i \in puts : TRUE].req.json.launchSpec.resourceLimits
             IN  [minInstanceCount |-> sent.minInstanceCount,
                  maxInstanceCount |-> sent.maxInstanceCount]

---------------------------------------------------------------------------
(* Initial state and the operations of the scaler *)

\* Nothing has run yet.  SpotOceanScaler keeps no mutable field and a process
\* run starts from nothing, so each scaler operation is taken from this state.
Init ==
    /\ op = "none"
    /\ args = EmptyDict
    /\ outcome = Return(None)
    /\ http = <<>>
    /\ access_token = None
    /\ calls = 0
    /\ token_posts = 0
    /\ remote = InitialLimits
    /\ prev = <<>>

\* the scaler instance the methods are called on directly
TheScaler == SpotOceanScaler(<<"t", "k">>, <<"a", "c", "t">>)
VngIds == {<<"o", "l", "s">>}

\* a caller invokes validate_scaling_parameters
ValidateScalingParameters ==
    /\ op = "none"
    /\ \E mn \in Capacities, mx \in Capacities :
        /\ op' = "validate_scaling_parameters"
        /\ args' = [min_capacity |-> mn, max_capacity |-> mx]
        /\ outcome' = validate_scaling_parameters(mn, mx)
        /\ http' = <<>>
        /\ UNCHANGED <<access_token, calls, token_posts, remote, prev>>

\* a caller invokes get_launch_spec_details
GetLaunchSpecDetails ==
    /\ op = "none"
    /\ \E vng \in VngIds, getResp \in GetResponses :
        LET r == get_launch_spec_details(TheScaler, vng, getResp)
        IN  /\ op' = "get_launch_spec_details"
            /\ args' = [vng_id |-> vng]
            /\ outcome' = r.outcome
            /\ http' = r.http
            /\ UNCHANGED <<access_token, calls, token_posts, remote, prev>>

\* a caller invokes scale_vng, the remote answering from gets and puts
ScaleVngCall(gets, puts) ==
    /\ op = "none"
    /\ \E vng \in VngIds, mn \in Capacities, mx \in Capacities,
          getResp \in gets, putResp \in puts :
        \E applied \in Accepts(putResp) :
        LET r == scale_vng(TheScaler, vng, mn, mx, getResp, putResp)
        IN  /\ op' = "scale_vng"
            /\ args' = [vng_id |-> vng, min_capacity |-> mn, max_capacity |-> mx]
            /\ outcome' = r.outcome
            /\ http' = r.http
            /\ remote' = remote_after(remote, r.http, applied)
            /\ UNCHANGED <<access_token, calls, token_posts, prev>>

ScaleVng == ScaleVngCall(GetResponses, PutResponses)

\* the answers drawn where scale_vng is called twice
RepeatGets == {TransportError, Response(200, JsonBody(LaunchSpecObject))}
RepeatPuts ==
    { TransportError, Response(200, Malformed),
      Response(200, JsonBody(UpdateResult)), Response(202, JsonBody(UpdateResult)),
      Response(500, JsonBody(ErrorResult)) }

\* a caller invokes scale_vng for the first time
ScaleVngFirst == ScaleVngCall(RepeatGets, RepeatPuts)

\* the caller invokes scale_vng once more with the same target and capacities
ScaleVngAgain ==
    /\ op = "scale_vng"
    /\ prev = <<>>
    /\ \E getResp \in RepeatGets, putResp \in RepeatPuts :
        \E applied \in Accepts(putResp) :
        LET r == scale_vng(TheScaler, args.vng_id, args.min_capacity,
                           args.max_capacity, getResp, putResp)
        IN  /\ prev' = http
            /\ outcome' = r.outcome
            /\ http' = r.http
            /\ remote' = remote_after(remote, r.http, applied)
            /\ UNCHANGED <<op, args, access_token, calls, token_posts>>

\* one run of the scaler script
ScalerMain ==
    /\ op = "none"
    /\ \E env \in ScalerEnvs, getResp \in GetResponses, putResp \in PutResponses :
        \E applied \in Accepts(putResp) :
        LET r == scale_spot_ocean_vng_main(env, getResp, putResp)
        IN  /\ op' = "scale_spot_ocean_vng.main"
            /\ args' = [env |-> env]
            /\ outcome' = r.outcome
            /\ http' = r.http
            /\ remote' = remote_after(remote, r.http, applied)
            /\ UNCHANGED <<access_token, calls, token_posts, prev>>

NextScaler == ValidateScalingParameters \/ GetLaunchSpecDetails \/ ScaleVng \/ ScalerMain

SpecScaler == Init /\ [][NextScaler]_vars

\* scale_vng called twice with the same arguments
NextRepeat == ScaleVngFirst \/ ScaleVngAgain

SpecRepeat == Init /\ [][NextRepeat]_vars

---------------------------------------------------------------------------
(* scripts/update_port_scaling_status.py : class PortStatusReporter *)

UpperCase == <<"A", "B", "C", "D", "E", "F", "G", "H", "I", "J", "K", "L", "M",
               "N", "O", "P", "Q", "R", "S", "T", "U", "V", "W", "X", "Y", "Z">>
LowerCase == <<"a", "b", "c", "d", "e", "f", "g", "h", "i", "j", "k", "l", "m",
               "n", "o", "p", "q", "r", "s", "t", "u", "v", "w", "x", "y", "z">>
LowerChar(c) ==
    IF \E i \in 1..26 : UpperCase[i] = c
    THEN LowerCase[CHOOSE i \in 1..26 : UpperCase[i] = c] ELSE c
UpperChar(c) ==
    IF \E i \in 1..26 : LowerCase[i] = c
    THEN UpperCase[CHOOSE i \in 1..26 : LowerCase[i] = c] ELSE c
\* str.lower()
lower(s) == [i \in 1..Len(s) |-> LowerChar(s[i])]

SuccessText == <<"s", "u", "c", "c", "e", "s", "s">>

\* PortStatusReporter.__init__ leaves access_token = None; token is the value
\* the field holds when a method is entered
PortStatusReporter(client_id, client_secret, token) ==
    [client_id |-> client_id, client_secret |-> client_secret,
     base_url |-> "https://api.port.io/v1", access_token |-> token]

\* what the token request can be answered with
TokenBodies ==
    { Malformed,
      JsonBody([ok |-> FALSE]),                 \* no accessToken key
      JsonBody([accessToken |-> ""]),
      JsonBody([accessToken |-> "tok-1"]) }
TokenResponses ==
    {TransportError, Response(401, JsonBody([ok |-> FALSE]))}
    \cup {Response(200, b) : b \in TokenBodies}

\* what the upsert request can be answered with
EntityResult == [ok |-> TRUE, entity |-> [identifier |-> "e"]]
UpsertResponses ==
    {TransportError, Response(200, Malformed), Response(500, Malformed)}
    \cup {Response(st, JsonBody(EntityResult)) : st \in {200, 201, 202}}

\* PortStatusReporter.authenticate; tokResp answers its POST.
\* Gives the exchanges made, the result and the value of self.access_token after.
authenticate(self, tokResp) ==
    LET request == [method |-> "POST", url |-> [path |-> "/auth/access_token"],
                    json |-> [clientId |-> self.client_id,
                              clientSecret |-> self.client_secret]]
        exchange == <<[req |-> request, resp |-> tokResp]>>
        body == json(tokResp)
        failure ==
            IF tokResp.kind = "error" THEN Raise("ConnectionError")
            ELSE IF raise_for_status(tokResp).kind = "raise" THEN raise_for_status(tokResp)
            ELSE IF body.kind = "raise" THEN body
            ELSE IF "accessToken" \notin DOMAIN body.value THEN Raise("KeyError")
            ELSE Return(None)
    IN  IF failure.kind = "raise"
        THEN [http |-> exchange, outcome |-> failure, access_token |-> self.access_token]
        ELSE [http |-> exchange, outcome |-> Return(body.value["accessToken"]),
              access_token |-> body.value["accessToken"]]

\* port_status as it would be if the comparison kept the case
port_status_case_sensitive(scaling_status) ==
    IF scaling_status = SuccessText THEN "COMPLETED" ELSE "FAILED"

\* the status mapping of update_entity_status
port_status(scaling_status) ==
    IF lower(scaling_status) = SuccessText THEN "COMPLETED" ELSE "FAILED"

\* dict.update
DictUpdate(d, e) ==
    [k \in DOMAIN d \cup DOMAIN e |-> IF k \in DOMAIN e THEN e[k] ELSE d[k]]

\* details is <<>> for None and <<dict>> for a dict; `if details`
DetailsTruthy(details) == details # <<>> /\ DOMAIN details[1] # {}

\* the upsert payload built by update_entity_status
entity_update(env, scaling_status, details, now) ==
    LET properties ==
            [last_scaling_status |-> port_status(scaling_status),
             last_scaling_time |-> <<now, "Z">>,
             scaling_job_link |->
                <<Getenv(env, "GITHUB_SERVER_URL", "https://github.com"), "/",
                  Getenv(env, "GITHUB_REPOSITORY", ""), "/actions/runs/",
                  Getenv(env, "GITHUB_RUN_ID", "")>>]
    IN  [properties |-> IF DetailsTruthy(details)
                        THEN DictUpdate(properties, details[1]) ELSE properties]

\* patch_outcome as it would be if it raised for an error status, as scale_vng does
patch_outcome_raising(upResp) ==
    IF upResp.kind = "error" THEN Raise("ConnectionError")
    ELSE IF upResp.status \notin {200, 201} /\ raise_for_status(upResp).kind = "raise"
         THEN raise_for_status(upResp)
    ELSE IF upResp.status \notin {200, 201} THEN Return(EmptyDict)
    ELSE json(upResp)

\* the part of update_entity_status after the PATCH was answered
patch_outcome(upResp) ==
    IF upResp.kind = "error" THEN Raise("ConnectionError")
    ELSE IF upResp.status \notin {200, 201} THEN Return(EmptyDict)
    ELSE json(upResp)

\* update_entity_status as it would be if it authenticated on every call
update_entity_status_always_auth(self, env, blueprint_id, entity_identifier, scaling_status, details, now, tokResp, upResp) ==
    LET auth == authenticate(self, tokResp)
        request == [method |-> "PATCH",
                    url |-> [path |-> "/blueprints", blueprint |-> blueprint_id,
                             entity |-> entity_identifier],
                    params |-> [upsert |-> "true"],
                    headers |-> [Authorization |-> auth.access_token,
                                 ContentType |-> "application/json"],
                    json |-> entity_update(env, scaling_status, details, now)]
    IN  IF auth.outcome.kind = "raise" THEN auth
        ELSE [http |-> auth.http \o <<[req |-> request, resp |-> upResp]>>,
              outcome |-> patch_outcome(upResp),
              access_token |-> auth.access_token]

\* PortStatusReporter.update_entity_status; tokResp answers the token request
\* (when one is made) and upResp the upsert.
update_entity_status(self, env, blueprint_id, entity_identifier, scaling_status, details, now, tokResp, upResp) ==
    LET auth == IF ~Truthy(self.access_token) THEN authenticate(self, tokResp)
                ELSE [http |-> <<>>, outcome |-> Return(self.access_token),
                      access_token |-> self.access_token]
        request == [method |-> "PATCH",
                    url |-> [path |-> "/blueprints", blueprint |-> blueprint_id,
                             entity |-> entity_identifier],
                    params |-> [upsert |-> "true"],
                    headers |-> [Authorization |-> auth.access_token,
                                 ContentType |-> "application/json"],
                    json |-> entity_update(env, scaling_status, details, now)]
    IN  IF auth.outcome.kind = "raise" THEN auth
        ELSE [http |-> auth.http \o <<[req |-> request, resp |-> upResp]>>,
              outcome |-> patch_outcome(upResp),
              access_token |-> auth.access_token]

---------------------------------------------------------------------------
(* scripts/update_port_scaling_status.py : main *)

UnknownText == <<"u", "n", "k", "n", "o", "w", "n">>

\* every way of writing "success" in upper and lower case letters
CaseVariants(w) ==
    { [i \in 1..Len(w) |-> IF i \in U THEN UpperChar(w[i]) ELSE w[i]] :
        U \in SUBSET (1..Len(w)) }

\* status texts that are not "success" in any case
OtherStatusTexts ==
    { <<>>, UnknownText,
      <<"f", "a", "i", "l", "u", "r", "e">>,
      <<"s", "u", "c", "c", "e", "s">>,
      <<"s", "u", "c", "c", "e", "s", "s", "f", "u", "l">>,
      <<" ", "s", "u", "c", "c", "e", "s", "s">>,
      <<"S", "U", "C", "C", "E", "S", "S", "!">>,
      <<"c", "a", "n", "c", "e", "l", "l", "e", "d">> }

StatusTexts == CaseVariants(SuccessText) \cup OtherStatusTexts

Times == {<<"2", "0", "2", "6">>}

ReporterEnvs ==
    { MakeEnv([PORT_CLIENT_ID |-> id, PORT_CLIENT_SECRET |-> secret,
               CLUSTER_ID |-> cluster, SCALING_STATUS |-> status,
               GITHUB_RUN_ID |-> run]) :
        id      \in {Unset, Set(<<"i", "d">>)},
        secret  \in {Unset, Set(<<>>), Set(<<"s">>)},
        cluster \in {Unset, Set(<<"c", "1">>)},
        status  \in {Unset} \cup {Set(t) : t \in StatusTexts},
        run     \in {Unset, Set(<<"7">>)} }

\* status_main_try as it would be if the except branch exited like the scaler's
status_main_try_exit_one(env, now, tokResp, upResp) ==
    LET reporter == PortStatusReporter(env["PORT_CLIENT_ID"], env["PORT_CLIENT_SECRET"], None)
        updated ==
            update_entity_status(reporter, env,
                Getenv(env, "BLUEPRINT_ID", <<"spot_ocean_cluster">>),
                env["CLUSTER_ID"] \o <<"-heartbeat">>,
                Getenv(env, "SCALING_STATUS", UnknownText),
                Set([workflow_run_id |-> Getenv(env, "GITHUB_RUN_ID", <<>>),
                     workflow_name |-> Getenv(env, "GITHUB_WORKFLOW", <<>>),
                     workflow_actor |-> Getenv(env, "GITHUB_ACTOR", <<>>)]),
                now, tokResp, upResp)
    IN  IF updated.outcome.kind = "raise"
        THEN [http |-> updated.http, outcome |-> Exit(1), raised |-> TRUE]
        ELSE [http |-> updated.http, outcome |-> Exit(0), raised |-> FALSE]

\* the try block of main: construct, update_entity_status, sys.exit(0);
\* except Exception: sys.exit(0)
status_main_try(env, now, tokResp, upResp) ==
    LET reporter == PortStatusReporter(env["PORT_CLIENT_ID"], env["PORT_CLIENT_SECRET"], None)
        entity_identifier == env["CLUSTER_ID"] \o <<"-heartbeat">>
        updated ==
            update_entity_status(reporter, env,
                Getenv(env, "BLUEPRINT_ID", <<"spot_ocean_cluster">>),
                entity_identifier,
                Getenv(env, "SCALING_STATUS", UnknownText),
                Set([workflow_run_id |-> Getenv(env, "GITHUB_RUN_ID", <<>>),
                     workflow_name |-> Getenv(env, "GITHUB_WORKFLOW", <<>>),
                     workflow_actor |-> Getenv(env, "GITHUB_ACTOR", <<>>)]),
                now, tokResp, upResp)
    IN  IF updated.outcome.kind = "raise"
        THEN [http |-> updated.http, outcome |-> Exit(0), raised |-> TRUE]
        ELSE [http |-> updated.http, outcome |-> Exit(0), raised |-> FALSE]

\* main of update_port_scaling_status.py, one process run
update_port_scaling_status_main(env, now, tokResp, upResp) ==
    LET missing_vars == {n \in {"PORT_CLIENT_ID", "PORT_CLIENT_SECRET", "CLUSTER_ID"} :
                            Missing(env, n)}
    IN  IF missing_vars # {} THEN [http |-> <<>>, outcome |-> Exit(0), raised |-> FALSE]
        ELSE status_main_try(env, now, tokResp, upResp)

---------------------------------------------------------------------------
(* The operations of the reporter *)

\* the reporter instance update_entity_status is called on repeatedly, and the
\* environment of the process that holds it
TheReporter(token) == PortStatusReporter(<<"i", "d">>, <<"s">>, token)
CallEnv == MakeEnv([GITHUB_RUN_ID |-> Set(<<"7">>), GITHUB_REPOSITORY |-> Unset])
EntityIds == {<<"c", "1", "-heartbeat">>, <<"c", "2", "-heartbeat">>}
CallStatusTexts ==
    { SuccessText, <<"S", "u", "c", "c", "E", "S", "S">>,
      <<"f", "a", "i", "l", "u", "r", "e">> }
CallDetails ==
    { <<>>, Set(EmptyDict), Set([workflow_run_id |-> <<"7">>]),
      Set([last_scaling_status |-> "RUNNING"]) }

PostCount(h) == Cardinality({i \in 1..Len(h) : h[i].req.method = "POST"})

\* a caller invokes update_entity_status on the instance
UpdateEntityStatus ==
    /\ op \in {"none", "update_entity_status"}
    /\ calls < MaxCalls
    /\ \E entity \in EntityIds, status \in CallStatusTexts, details \in CallDetails,
          now \in Times, upResp \in UpsertResponses,
          \* a token request is made, and answered, only without a token
          tokResp \in IF Truthy(access_token) THEN {TransportError} ELSE TokenResponses :
        LET r == update_entity_status(TheReporter(access_token), CallEnv,
                     <<"spot_ocean_cluster">>, entity, status, details, now,
                     tokResp, upResp)
        IN  /\ op' = "update_entity_status"
            /\ args' = [entity_identifier |-> entity, scaling_status |-> status,
                        details |-> details, token_before |-> access_token]
            /\ outcome' = r.outcome
            /\ http' = r.http
            /\ access_token' = r.access_token
            /\ calls' = calls + 1
            /\ token_posts' = token_posts + PostCount(r.http)
            /\ UNCHANGED <<remote, prev>>

\* one run of the status script; its reporter instance is its own
ReporterMain ==
    /\ op = "none"
    /\ \E env \in ReporterEnvs, now \in Times,
          tokResp \in TokenResponses, upResp \in UpsertResponses :
        LET r == update_port_scaling_status_main(env, now, tokResp, upResp)
        IN  /\ op' = "update_port_scaling_status.main"
            /\ args' = [env |-> env, raised |-> r.raised]
            /\ outcome' = r.outcome
            /\ http' = r.http
            /\ UNCHANGED <<access_token, calls, token_posts, remote, prev>>

NextReporter == UpdateEntityStatus \/ ReporterMain

SpecReporter == Init /\ [][NextReporter]_vars

Next == NextScaler \/ NextReporter

Spec == Init /\ [][Next]_vars

---------------------------------------------------------------------------
(* Properties of the scaler *)

ScalerMainRan == op = "scale_spot_ocean_vng.main"
\* the run got past the environment check and the parsing of both capacities
MainParsed ==
    /\ ScalerMainRan
    /\ \A n \in {"SPOT_TOKEN", "SPOT_ACCOUNT_ID", "VNG_ID", "MIN_CAPACITY", "MAX_CAPACITY"} :
          ~Missing(args.env, n)
    /\ int(args.env["MIN_CAPACITY"]).kind = "return"
    /\ int(args.env["MAX_CAPACITY"]).kind = "return"
\* the capacities the last scaler operation was asked for
RequestedMin ==
    IF ScalerMainRan THEN int(args.env["MIN_CAPACITY"]).value ELSE args.min_capacity
RequestedMax ==
    IF ScalerMainRan THEN int(args.env["MAX_CAPACITY"]).value ELSE args.max_capacity
BoundsValid == RequestedMin >= 1 /\ RequestedMax >= RequestedMin

\* positions in http of the exchanges of one method
Sent(method) == {i \in 1..Len(http) : http[i].req.method = method}
\* the fetch of the last scale_vng call failed
FetchFailed ==
    /\ Sent("GET") # {}
    /\ get_launch_spec_details(TheScaler, args.vng_id, http[1].resp).outcome.kind = "raise"
\* a fetch answer with which get_launch_spec_details succeeds
GoodFetch == Response(200, JsonBody(LaunchSpecObject))

\* C1: validate_scaling_parameters(min, max) raises ValueError when min < 1,
\* whatever max is, and when max < min; it returns True when min >= 1 and
\* max >= min.
C1_ValidateContract ==
    op = "validate_scaling_parameters" =>
        /\ (args.min_capacity < 1 => outcome = Raise("ValueError"))
        /\ (args.max_capacity < args.min_capacity => outcome = Raise("ValueError"))
        /\ (args.min_capacity >= 1 /\ args.max_capacity >= args.min_capacity
                => outcome = Return(TRUE))
C1_Witness ==
    /\ op = "validate_scaling_parameters"
    /\ args.min_capacity = 0 /\ args.max_capacity = 2
    /\ outcome = Raise("ValueError")

\* C2: a run of the scaler's main whose requested bounds violate min >= 1 or
\* max >= min fails at validation: it issues no GET and no PUT and exits
\* non-zero.
C2_NoRequestOnInvalidBounds ==
    MainParsed /\ ~BoundsValid =>
        /\ Sent("GET") = {} /\ Sent("PUT") = {}
        /\ http = <<>>
        /\ outcome.kind = "exit" /\ outcome.code # 0
C2_Witness ==
    /\ MainParsed /\ RequestedMin = 2 /\ RequestedMax = 1
    /\ http = <<>> /\ outcome = Exit(1)

\* C3: every PUT sent by scale_vng(target, min, max) carries a payload that is
\* exactly {launchSpec: {resourceLimits: {minInstanceCount: min,
\* maxInstanceCount: max}}}, with no other key at any level, whatever the fetch
\* before it returned or however it failed.
C3_PayloadExactlyTwoFields ==
    op = "scale_vng" =>
        \A i \in Sent("PUT") :
            LET payload == http[i].req.json
            IN  /\ DOMAIN payload = {"launchSpec"}
                /\ DOMAIN payload.launchSpec = {"resourceLimits"}
                /\ DOMAIN payload.launchSpec.resourceLimits
                      = {"minInstanceCount", "maxInstanceCount"}
                /\ payload.launchSpec.resourceLimits.minInstanceCount = args.min_capacity
                /\ payload.launchSpec.resourceLimits.maxInstanceCount = args.max_capacity
C3_Witness ==
    /\ op = "scale_vng" /\ Sent("PUT") = {2}
    /\ http[1].resp = Response(200, JsonBody([response |-> [items |-> <<LaunchSpecObject>>]]))
    /\ args.min_capacity = 1 /\ args.max_capacity = 2
    /\ http[2].req.json.launchSpec.resourceLimits
          = [minInstanceCount |-> 1, maxInstanceCount |-> 2]

\* C4: when the fetch made by scale_vng fails (transport error, 4xx/5xx status
\* or unusable body), scale_vng still sends the PUT, and it ends as the same
\* call does when the fetch succeeds and the PUT is answered the same way.
C4_FetchFailureTolerated ==
    op = "scale_vng" /\ FetchFailed =>
        /\ Len(http) = 2 /\ Sent("PUT") = {2}
        /\ outcome = scale_vng(TheScaler, args.vng_id, args.min_capacity,
                               args.max_capacity, GoodFetch, http[2].resp).outcome
C4_Witness ==
    /\ op = "scale_vng" /\ FetchFailed
    /\ http[1].resp = TransportError
    /\ Sent("PUT") = {2}
    /\ outcome = Return(UpdateResult)

\* C5 (as claimed): for every status of the PUT response outside {200, 201},
\* other 2xx and 3xx included, scale_vng raises and returns no result.
C5_NonSuccessStatusRaises ==
    op = "scale_vng" =>
        \A i \in Sent("PUT") :
            http[i].resp.kind = "response" /\ http[i].resp.status \notin {200, 201}
                => outcome.kind = "raise"

\* the PUT of the last run failed: transport error, status outside {200, 201}
\* or a body that does not parse
WriteFailed ==
    \E i \in Sent("PUT") :
        \/ http[i].resp.kind = "error"
        \/ http[i].resp.status \notin {200, 201}
        \/ ~http[i].resp.body.valid

\* C6 (as claimed): a run of the scaler's main in which validation or the PUT
\* fails exits non-zero, and a run exits 0 only if its PUT was sent and
\* answered with 200 or 201.
C6_ExitCodeReflectsFailure ==
    ScalerMainRan =>
        /\ ((MainParsed /\ ~BoundsValid) \/ WriteFailed => outcome.code # 0)
        /\ (outcome.code = 0 =>
                \E i \in Sent("PUT") :
                    http[i].resp.kind = "response" /\ http[i].resp.status \in {200, 201})

---------------------------------------------------------------------------
(* Properties of the reporter *)

ReporterMainRan == op = "update_port_scaling_status.main"
UpdateCalled == op = "update_entity_status"
\* the status text and the details the last reporter operation passed to
\* update_entity_status
StatusGiven ==
    IF ReporterMainRan THEN Getenv(args.env, "SCALING_STATUS", UnknownText)
    ELSE args.scaling_status
\* the caller's details carry their own last_scaling_status (main's never do)
DetailsCarryStatus ==
    /\ UpdateCalled
    /\ DetailsTruthy(args.details)
    /\ "last_scaling_status" \in DOMAIN args.details[1]
Authenticated == Truthy(access_token)

\* C7 (as claimed): update_entity_status never raises: every call, whatever
\* the token request and the upsert request are answered with, sends the
\* upsert request and returns normally.
C7_UpdateNeverRaises ==
    UpdateCalled => outcome.kind = "return" /\ Sent("PATCH") # {}

\* C8: every run of the status script exits with code 0: with credentials or
\* cluster id missing, and whatever the token request and the upsert request
\* are answered with.
C8_ReporterExitsZero ==
    ReporterMainRan => outcome = Exit(0)
C8_Witness ==
    /\ ReporterMainRan /\ args.raised
    /\ Sent("POST") = {1} /\ http[1].resp.kind = "response" /\ http[1].resp.status = 401
    /\ outcome = Exit(0)

C10_TokenRequestedOnceOnFirstCall ==
    /\ token_posts <= 1
    /\ (UpdateCalled /\ Sent("POST") # {} => calls = 1)

\* C10 (amended): a call of update_entity_status requests the token exactly
\* when the instance holds no token as the call starts, and then once; an
\* instance that is Authenticated stays so, with the same token, and sends no
\* further token request.
C10_AuthenticatedIsTerminal ==
    [][ /\ (Authenticated =>
                access_token' = access_token /\ token_posts' = token_posts)
        /\ (~Authenticated /\ calls' = calls + 1 =>
                token_posts' = token_posts + 1) ]_vars
C10_Witness ==
    /\ UpdateCalled /\ calls = 3 /\ token_posts = 2
    /\ Truthy(args.token_before) /\ access_token = args.token_before
    /\ Sent("POST") = {} /\ Sent("PATCH") = {1}

---------------------------------------------------------------------------
(* Properties of both scripts *)

\* a required variable of the run is unset or empty
Lacks(name) == name \notin DOMAIN args.env \/ args.env[name] = <<>>
\* the text of a capacity variable is a decimal integer as int() accepts it:
\* blanks around an optional sign and one or more digits
IsIntegerText(name) ==
    LET t == args.env[name]
    IN  \E i \in 1..Len(t), j \in 1..Len(t) :
            /\ i <= j
            /\ \A k \in 1..Len(t) : (k < i \/ k > j) => t[k] = " "
            /\ \/ \A k \in i..j : IsDigit(t[k])
               \/ /\ i < j /\ t[i] \in {"-", "+"}
                  /\ \A k \in (i + 1)..j : IsDigit(t[k])
ScalerInputMissing ==
    \/ \E n \in {"SPOT_TOKEN", "SPOT_ACCOUNT_ID", "VNG_ID", "MIN_CAPACITY", "MAX_CAPACITY"} :
          Lacks(n)
    \/ ~IsIntegerText("MIN_CAPACITY") \/ ~IsIntegerText("MAX_CAPACITY")
ReporterInputMissing ==
    \E n \in {"PORT_CLIENT_ID", "PORT_CLIENT_SECRET", "CLUSTER_ID"} : Lacks(n)

\* C11: a run of either script that lacks a required input (scaler: token,
\* account id, target id, min or max capacity, or a capacity that is not an
\* integer; reporter: client id, client secret or cluster id) terminates
\* without having issued any network request.
C11_NoRequestOnMissingInput ==
    /\ (ScalerMainRan /\ ScalerInputMissing => http = <<>> /\ outcome.kind = "exit")
    /\ (ReporterMainRan /\ ReporterInputMissing => http = <<>> /\ outcome.kind = "exit")
C11_Witness ==
    /\ ScalerMainRan
    /\ "SPOT_TOKEN" \in DOMAIN args.env /\ args.env["SPOT_TOKEN"] = <<>>
    /\ \A n \in {"SPOT_ACCOUNT_ID", "VNG_ID", "MIN_CAPACITY", "MAX_CAPACITY"} : ~Lacks(n)
    /\ IsIntegerText("MIN_CAPACITY") /\ IsIntegerText("MAX_CAPACITY")
    /\ RequestedMin = 1 /\ RequestedMax = 2
    /\ http = <<>> /\ outcome = Exit(1)

\* C12: no request is retried.  A scale_vng call issues exactly one GET and
\* then at most one PUT, the GET first, and a failed PUT is not followed by
\* another; an update_entity_status call issues at most one token request and
\* at most one upsert request.
C12_NoRetry ==
    /\ op = "scale_vng" =>
          /\ Sent("GET") = {1}
          /\ Sent("PUT") \subseteq {2}
          /\ Len(http) <= 2
    /\ UpdateCalled =>
          /\ Cardinality(Sent("POST")) <= 1
          /\ Cardinality(Sent("PATCH")) <= 1
          /\ Len(http) <= 2
C12_Witness ==
    /\ op = "scale_vng"
    /\ Sent("GET") = {1} /\ Sent("PUT") = {2}
    /\ http[2].resp.kind = "response" /\ http[2].resp.status = 500
    /\ outcome = Raise("HTTPError")

---------------------------------------------------------------------------
(* Further properties of the reporter and of the scaler *)

\* the limits carried by the PUT at position i of http
SentLimits(i) == http[i].req.json.launchSpec.resourceLimits
\* the text is "success" written in any mix of upper and lower case
IsSuccessText(t) ==
    /\ Len(t) = Len(SuccessText)
    /\ \A k \in 1..Len(t) : t[k] \in {SuccessText[k], UpperChar(SuccessText[k])}

\* C14: when the upsert request is answered with a status other than 200 or
\* 201, update_entity_status returns the empty dict, does not raise, and the
\* instance still holds the token the request was sent with.
C14_NonSuccessUpsertIgnored ==
    UpdateCalled =>
        \A i \in Sent("PATCH") :
            http[i].resp.kind = "response" /\ http[i].resp.status \notin {200, 201} =>
                /\ outcome = Return(EmptyDict)
                /\ access_token = http[i].req.headers.Authorization
                /\ (Truthy(args.token_before) => access_token = args.token_before)
C14_Witness ==
    /\ UpdateCalled /\ Truthy(args.token_before) /\ Sent("PATCH") = {1}
    /\ http[1].resp.kind = "response" /\ http[1].resp.status = 500
    /\ outcome = Return(EmptyDict)
    /\ access_token = args.token_before

\* C15: when the PUT is answered with status 200 or 201 and a body that
\* parses, scale_vng returns that body as it is; the payload it sent carries
\* the requested minimum and maximum.
C15_SuccessBodyReturned ==
    op = "scale_vng" =>
        \A i \in Sent("PUT") :
            /\ http[i].resp.kind = "response"
            /\ http[i].resp.status \in {200, 201}
            /\ http[i].resp.body.valid
            => /\ outcome = Return(http[i].resp.body.value)
               /\ SentLimits(i) = [minInstanceCount |-> args.min_capacity,
                                   maxInstanceCount |-> args.max_capacity]
C15_Witness ==
    /\ op = "scale_vng" /\ Sent("PUT") = {2}
    /\ args.min_capacity = 1 /\ args.max_capacity = MaxCap
    /\ http[2].resp = Response(201, JsonBody(UpdateResult))
    /\ outcome = Return(UpdateResult)

\* C16 (as claimed): whatever scaler operation is called, scale_vng directly
\* included, no PUT is sent whose payload has minInstanceCount < 1 or
\* maxInstanceCount < minInstanceCount.
C16_NoInvalidWriteEver ==
    \A i \in Sent("PUT") :
        /\ SentLimits(i).minInstanceCount >= 1
        /\ SentLimits(i).maxInstanceCount >= SentLimits(i).minInstanceCount

\* C16 (amended): in a run of the scaler's main, which validates before it
\* scales, no PUT is sent whose payload has minInstanceCount < 1 or
\* maxInstanceCount < minInstanceCount.
C16_MainNeverWritesInvalid ==
    ScalerMainRan =>
        \A i \in Sent("PUT") :
            /\ SentLimits(i).minInstanceCount >= 1
            /\ SentLimits(i).maxInstanceCount >= SentLimits(i).minInstanceCount
            /\ SentLimits(i).minInstanceCount = RequestedMin
            /\ SentLimits(i).maxInstanceCount = RequestedMax
C16_Witness ==
    /\ ScalerMainRan /\ Sent("PUT") = {2}
    /\ RequestedMin = 1 /\ RequestedMax = 1
    /\ SentLimits(2) = [minInstanceCount |-> 1, maxInstanceCount |-> 1]

\* C17 (as claimed): in every upsert payload last_scaling_status is the outcome
\* mapped from the status text, COMPLETED or FAILED, whatever the details are,
\* also when they carry the keys of the payload themselves.
C17_StatusSurvivesDetails ==
    UpdateCalled \/ ReporterMainRan =>
        \A i \in Sent("PATCH") :
            http[i].req.json.properties.last_scaling_status
                = IF IsSuccessText(StatusGiven) THEN "COMPLETED" ELSE "FAILED"

\* C18 (as claimed): every upsert request is sent with a non-empty token held
\* by the instance, and a call whose token request failed sends no upsert.
C18_UpsertOnlyWithToken ==
    UpdateCalled =>
        /\ \A i \in Sent("PATCH") :
              /\ Truthy(http[i].req.headers.Authorization)
              /\ Authenticated
        /\ (\E j \in Sent("POST") :
                \/ http[j].resp.kind = "error"
                \/ http[j].resp.status >= 400
                \/ ~http[j].resp.body.valid) => Sent("PATCH") = {}

\* the GET of the last operation was answered, without an error status, by a
\* body that parses
FetchAnswered ==
    /\ Sent("GET") = {1}
    /\ http[1].resp.kind = "response" /\ http[1].resp.status < 400
    /\ http[1].resp.body.valid
FetchedBody == http[1].resp.body.value
\* that body is a response wrapper / a wrapper with a first item
IsWrapper == "response" \in DOMAIN FetchedBody
HasFirstItem ==
    /\ "items" \in DOMAIN FetchedBody["response"]
    /\ Len(FetchedBody["response"]["items"]) >= 1

\* C19: get_launch_spec_details accepts both shapes of the body: from a
\* response wrapper it returns the first item of the items list, from a bare
\* object the object itself; a wrapper whose items list is empty or missing
\* makes it raise, and scale_vng goes on to its PUT after that as after any
\* other failure of the fetch.
C19_BothShapesAccepted ==
    /\ op = "get_launch_spec_details" /\ FetchAnswered =>
          /\ (IsWrapper /\ HasFirstItem =>
                outcome = Return(FetchedBody["response"]["items"][1]))
          /\ (~IsWrapper => outcome = Return(FetchedBody))
          /\ (IsWrapper /\ ~HasFirstItem => outcome.kind = "raise")
    /\ op = "scale_vng" /\ FetchAnswered /\ IsWrapper /\ ~HasFirstItem =>
          /\ Sent("PUT") = {2}
          /\ (http[2].resp.kind = "error" => outcome.kind = "raise")
          /\ (/\ http[2].resp.kind = "response"
              /\ http[2].resp.status \in {200, 201}
              /\ http[2].resp.body.valid
              => outcome = Return(http[2].resp.body.value))
C19_Witness ==
    /\ op = "get_launch_spec_details" /\ FetchAnswered
    /\ IsWrapper /\ HasFirstItem
    /\ outcome = Return(LaunchSpecObject)

---------------------------------------------------------------------------
(* Properties of repeated scaling *)

\* scale_vng has been called a second time with the same arguments
Repeated == op = "scale_vng" /\ prev # <<>>
RequestedLimits ==
    [minInstanceCount |-> args.min_capacity, maxInstanceCount |-> args.max_capacity]
\* the payloads of the PUTs among the exchanges h, and whether one of them was
\* answered with 200 or 201
PutPayloads(h) == {h[i].req.json : i \in {k \in 1..Len(h) : h[k].req.method = "PUT"}}
WriteAccepted(h) ==
    \E i \in 1..Len(h) :
        /\ h[i].req.method = "PUT"
        /\ h[i].resp.kind = "response" /\ h[i].resp.status \in {200, 201}

\* C13: with a remote that applies an accepted PUT as a replacement of the two
\* limits, scale_vng run twice with the same target, minimum and maximum sends
\* the same payload both times, and once either write was accepted the remote
\* limits are those a single successful run leaves: the requested ones, also
\* when the first write failed.
C13_RepeatIsIdempotent ==
    /\ (op = "scale_vng" /\ prev = <<>> /\ WriteAccepted(http) => remote = RequestedLimits)
    /\ Repeated =>
          /\ PutPayloads(prev) = PutPayloads(http)
          /\ Cardinality(PutPayloads(http)) = 1
          /\ (WriteAccepted(prev) \/ WriteAccepted(http) => remote = RequestedLimits)
          /\ remote \in {InitialLimits, RequestedLimits}
C13_Witness ==
    /\ Repeated
    /\ args.min_capacity = 1 /\ args.max_capacity = 2
    /\ prev[2].resp.kind = "response" /\ prev[2].resp.status = 500
    /\ WriteAccepted(http)
    /\ remote = [minInstanceCount |-> 1, maxInstanceCount |-> 2]

====
